---- MODULE Spec2Model ----
(***************************************************************************)
(* System_Monitor: the collectors (Collectors.cpp), the factory and the    *)
(* timer-driven loop of main.cpp.                                          *)
(*                                                                         *)
(* Text is modelled as it is in the program: a line is a sequence of       *)
(* one-character strings, a file is a sequence of lines (std::getline),    *)
(* and a std::stringstream is a record [buf, pos, good] on which the       *)
(* operator>> extractions below act.                                       *)
(*                                                                         *)
(* unsigned long long / uint64_t arithmetic is modular; the word is        *)
(* WordBits wide here instead of 64 so that wrap-around stays inside       *)
(* TLC's integers.  A double is kept exactly: usage_percent_ is the        *)
(* fraction [num, den]; loads and uptime are hundredths.                   *)
(***************************************************************************)
EXTENDS Integers, Sequences, FiniteSets, TLC

\* ------------------------------------------------------------ bounds
WordBits == 6
MaxTick == 1
MaxKb == 2
MaxDiskLines == 1
MaxNetLines == 1
MaxEntries == 2

Modulus == 2 ^ WordBits

\* ------------------------------------------------------------ text
Digits == <<"0", "1", "2", "3", "4", "5", "6", "7", "8", "9">>

IsDigit(c) == \E d \in 1..10 : Digits[d] = c

DigitVal(c) == (CHOOSE d \in 1..10 : Digits[d] = c) - 1

\* isspace, as operator>> skips it.
IsSpace(c) == c \in {" ", "\t", "\n"}

\* The decimal text of n (how the kernel prints a counter).
RECURSIVE NumStr(_)
NumStr(n) == IF n < 10 THEN <<Digits[n + 1]>>
             ELSE NumStr(n \div 10) \o <<Digits[(n % 10) + 1]>>

\* Words joined by single blanks.
RECURSIVE Join(_)
Join(ws) == IF ws = <<>> THEN <<>>
            ELSE IF Len(ws) = 1 THEN ws[1]
            ELSE ws[1] \o <<" ">> \o Join(Tail(ws))

\* std::string::find(char) / rfind(char): 0 stands for npos.
FindChar(s, c) == IF \E i \in 1..Len(s) : s[i] = c
                  THEN CHOOSE i \in 1..Len(s) : s[i] = c /\ \A j \in 1..(i - 1) : s[j] # c
                  ELSE 0

RFindChar(s, c) == IF \E i \in 1..Len(s) : s[i] = c
                   THEN CHOOSE i \in 1..Len(s) : s[i] = c /\ \A j \in (i + 1)..Len(s) : s[j] # c
                   ELSE 0

\* std::string::find(substring) != npos
Contains(s, w) == \E i \in 1..(Len(s) - Len(w) + 1) : SubSeq(s, i, i + Len(w) - 1) = w

\* ------------------------------------------------------------ streams
\* std::stringstream ss(text)
Stream(text) == [buf |-> text, pos |-> 1, good |-> TRUE]

RECURSIVE SkipWs(_, _)
SkipWs(s, p) == IF p <= Len(s) /\ IsSpace(s[p]) THEN SkipWs(s, p + 1) ELSE p

RECURSIVE WordEnd(_, _)
WordEnd(s, p) == IF p <= Len(s) /\ ~IsSpace(s[p]) THEN WordEnd(s, p + 1) ELSE p

RECURSIVE DigitsEnd(_, _)
DigitsEnd(s, p) == IF p <= Len(s) /\ IsDigit(s[p]) THEN DigitsEnd(s, p + 1) ELSE p

\* The value of the digits s[a..b-1].
RECURSIVE DigitsVal(_, _, _)
DigitsVal(s, a, b) == IF a >= b THEN 0
                      ELSE DigitsVal(s, a, b - 1) * 10 + DigitVal(s[b - 1])

\* ss >> std::string.  A failed stream extracts nothing; at end of input the
\* sentry sets failbit and the (default-constructed, empty) string is kept.
GetWord(ss) ==
  IF ~ss.good THEN [ss |-> ss, val |-> <<>>]
  ELSE LET p == SkipWs(ss.buf, ss.pos) IN
       IF p > Len(ss.buf)
       THEN [ss |-> [ss EXCEPT !.pos = p, !.good = FALSE], val |-> <<>>]
       ELSE LET e == WordEnd(ss.buf, p) IN
            [ss |-> [ss EXCEPT !.pos = e], val |-> SubSeq(ss.buf, p, e - 1)]

\* ss >> integer (num_get): `old` is what the target held.  A failed stream or
\* end of input leaves the target alone; a token that is no number stores 0 and
\* sets failbit.  An unsigned target takes a negative number modulo the word.
\* (A number too large for the target would be clamped; the inputs below hold
\* none, and the counters that enter arithmetic stay below Modulus.)
GetNum(ss, old, unsigned) ==
  IF ~ss.good THEN [ss |-> ss, val |-> old]
  ELSE LET p == SkipWs(ss.buf, ss.pos) IN
       IF p > Len(ss.buf)
       THEN [ss |-> [ss EXCEPT !.pos = p, !.good = FALSE], val |-> old]
       ELSE LET neg == ss.buf[p] = "-"
                d == IF ss.buf[p] \in {"-", "+"} THEN p + 1 ELSE p
                e == DigitsEnd(ss.buf, d)
                n == DigitsVal(ss.buf, d, e)
            IN IF e = d
               THEN [ss |-> [ss EXCEPT !.pos = p, !.good = FALSE], val |-> 0]
               ELSE [ss |-> [ss EXCEPT !.pos = e],
                     val |-> IF neg THEN (IF unsigned THEN (Modulus - (n % Modulus)) % Modulus
                                                      ELSE 0 - n)
                             ELSE n]

\* ss >> char
GetChar(ss, old) ==
  IF ~ss.good THEN [ss |-> ss, val |-> old]
  ELSE LET p == SkipWs(ss.buf, ss.pos) IN
       IF p > Len(ss.buf)
       THEN [ss |-> [ss EXCEPT !.pos = p, !.good = FALSE], val |-> old]
       ELSE [ss |-> [ss EXCEPT !.pos = p + 1], val |-> ss.buf[p]]

\* ss >> double, the value in hundredths (digits, then '.' and digits).
GetDouble(ss, old) ==
  IF ~ss.good THEN [ss |-> ss, val |-> old]
  ELSE LET p == SkipWs(ss.buf, ss.pos) IN
       IF p > Len(ss.buf)
       THEN [ss |-> [ss EXCEPT !.pos = p, !.good = FALSE], val |-> old]
       ELSE LET e == DigitsEnd(ss.buf, p)
                dot == e <= Len(ss.buf) /\ ss.buf[e] = "."
                f == IF dot THEN DigitsEnd(ss.buf, e + 1) ELSE e
                frac == IF ~dot \/ f = e + 1 THEN 0
                        ELSE IF f = e + 2 THEN 10 * DigitVal(ss.buf[e + 1])
                        ELSE 10 * DigitVal(ss.buf[e + 1]) + DigitVal(ss.buf[e + 2])
            IN IF e = p /\ (~dot \/ f = e + 1)
               THEN [ss |-> [ss EXCEPT !.pos = p, !.good = FALSE], val |-> 0]
               ELSE [ss |-> [ss EXCEPT !.pos = f],
                     val |-> 100 * DigitsVal(ss.buf, p, e) + frac]

\* std::stoi(str): leading blanks and a sign are skipped, the longest run of
\* digits is the value, what follows is ignored; no digit at all throws
\* std::invalid_argument.
Stoi(str) ==
  LET p == SkipWs(str, 1)
      neg == p <= Len(str) /\ str[p] = "-"
      d == IF p <= Len(str) /\ str[p] \in {"-", "+"} THEN p + 1 ELSE p
      e == DigitsEnd(str, d)
  IN IF e = d THEN [threw |-> TRUE, val |-> 0]
     ELSE [threw |-> FALSE,
           val |-> IF neg THEN 0 - DigitsVal(str, d, e) ELSE DigitsVal(str, d, e)]

\* A file as the program sees it in one refresh: it cannot be opened, or it
\* opens and holds these lines.
NoFile == [open |-> FALSE, lines |-> <<>>]

File(ls) == [open |-> TRUE, lines |-> ls]

\* usage_percent_ = 100.0 * n / d, kept exactly.
Pct(n, d) == [num |-> 100 * n, den |-> d]

Zero == [num |-> 0, den |-> 1]

\* ------------------------------------------------------------ words
W_cpu == <<"c", "p", "u">>

W_kB == <<"k", "B">>

K_MemTotal == <<"M", "e", "m", "T", "o", "t", "a", "l", ":">>

K_MemFree == <<"M", "e", "m", "F", "r", "e", "e", ":">>

K_MemAvailable == <<"M", "e", "m", "A", "v", "a", "i", "l", "a", "b", "l", "e", ":">>

K_Buffers == <<"B", "u", "f", "f", "e", "r", "s", ":">>

K_Cached == <<"C", "a", "c", "h", "e", "d", ":">>

\* What an uninitialized local may hold when an extraction leaves it alone.
Indeterminate == {0, 1}

\* ------------------------------------------------------------ Logger
LevelRank(level) == CASE level = "DEBUG" -> 0
                      [] level = "INFO" -> 1
                      [] level = "WARNING" -> 2
                      [] level = "ERROR" -> 3

\* main() sets the level to WARNING before anything else.
current_level_ == "WARNING"

\* Logger::log writes the line unless level < current_level_: the number of
\* lines one LOG_ERROR call puts on stderr.
LOG_ERROR == IF LevelRank("ERROR") < LevelRank(current_level_) THEN 0 ELSE 1

\* ------------------------------------------------------------ CPUCollector
CpuInit == [raw_data_ |-> <<>>, prev_idle_ |-> 0, prev_total_ |-> 0,
            curr_idle_ |-> 0, curr_total_ |-> 0, usage_percent_ |-> Zero]

\* do_collect that clears raw_data_ when the file cannot be opened.
Cpu_do_collect_clearing(c, f) ==
  IF ~f.open THEN [obj |-> [c EXCEPT !.raw_data_ = <<>>], errs |-> LOG_ERROR]
  ELSE [obj |-> [c EXCEPT !.raw_data_ = IF f.lines = <<>> THEN <<>> ELSE f.lines[1]],
        errs |-> 0]

\* do_collect: the first line of the file replaces raw_data_ (std::getline
\* erases the string even when the file is empty); an unopenable file is
\* logged and raw_data_ is kept.
Cpu_do_collect(c, f) ==
  IF ~f.open THEN [obj |-> c, errs |-> LOG_ERROR]
  ELSE [obj |-> [c EXCEPT !.raw_data_ = IF f.lines = <<>> THEN <<>> ELSE f.lines[1]],
        errs |-> 0]

\* do_parse: g is what the eight uninitialized locals hold.
Cpu_do_parse(c, g) ==
  IF c.raw_data_ = <<>> THEN c
  ELSE LET label == GetWord(Stream(c.raw_data_))
           user == GetNum(label.ss, g, TRUE)
           nice == GetNum(user.ss, g, TRUE)
           system == GetNum(nice.ss, g, TRUE)
           idle == GetNum(system.ss, g, TRUE)
           iowait == GetNum(idle.ss, g, TRUE)
           irq == GetNum(iowait.ss, g, TRUE)
           softirq == GetNum(irq.ss, g, TRUE)
           steal == GetNum(softirq.ss, g, TRUE)
       IN [c EXCEPT !.prev_idle_ = c.curr_idle_,
                    !.prev_total_ = c.curr_total_,
                    !.curr_idle_ = (idle.val + iowait.val) % Modulus,
                    !.curr_total_ = (user.val + nice.val + system.val + idle.val + iowait.val
                                     + irq.val + softirq.val + steal.val) % Modulus]

\* do_calculate with a first-sample guard: nothing is computed while the
\* previous generation is still the initial one.
Cpu_do_calculate_guarded(c) ==
  LET total_diff == (c.curr_total_ + Modulus - c.prev_total_) % Modulus
      idle_diff == (c.curr_idle_ + Modulus - c.prev_idle_) % Modulus
  IN IF total_diff > 0 /\ c.prev_total_ > 0
     THEN [c EXCEPT !.usage_percent_ = Pct((total_diff + Modulus - idle_diff) % Modulus, total_diff)]
     ELSE c

Cpu_do_calculate(c) ==
  LET total_diff == (c.curr_total_ + Modulus - c.prev_total_) % Modulus
      idle_diff == (c.curr_idle_ + Modulus - c.prev_idle_) % Modulus
  IN IF total_diff > 0
     THEN [c EXCEPT !.usage_percent_ = Pct((total_diff + Modulus - idle_diff) % Modulus, total_diff)]
     ELSE c

\* Collector::update for the CPU collector.
Cpu_update(c, f, g) ==
  LET col == Cpu_do_collect(c, f)
  IN [obj |-> Cpu_do_calculate(Cpu_do_parse(col.obj, g)), errs |-> col.errs, threw |-> FALSE]

\* ------------------------------------------------------------ MemoryCollector
MemInit == [raw_data_ |-> <<>>, total_kb_ |-> 0, free_kb_ |-> 0, available_kb_ |-> 0,
            buffers_kb_ |-> 0, cached_kb_ |-> 0, used_kb_ |-> 0, usage_percent_ |-> Zero]

\* do_collect: the whole file replaces raw_data_.
Mem_do_collect(m, f) ==
  IF ~f.open THEN [obj |-> m, errs |-> LOG_ERROR]
  ELSE [obj |-> [m EXCEPT !.raw_data_ = f.lines], errs |-> 0]

\* One line of do_parse's loop: key, value and unit are extracted, and the
\* value is stored under the key it belongs to.
Mem_parse_line(m, line, g) ==
  LET key == GetWord(Stream(line))
      value == GetNum(key.ss, g, TRUE)
  IN CASE key.val = K_MemTotal -> [m EXCEPT !.total_kb_ = value.val]
       [] key.val = K_MemFree -> [m EXCEPT !.free_kb_ = value.val]
       [] key.val = K_MemAvailable -> [m EXCEPT !.available_kb_ = value.val]
       [] key.val = K_Buffers -> [m EXCEPT !.buffers_kb_ = value.val]
       [] key.val = K_Cached -> [m EXCEPT !.cached_kb_ = value.val]
       [] OTHER -> m

RECURSIVE Mem_parse_lines(_, _, _)
Mem_parse_lines(m, lines, g) ==
  IF lines = <<>> THEN m
  ELSE Mem_parse_lines(Mem_parse_line(m, Head(lines), g), Tail(lines), g)

Mem_do_parse(m, g) == Mem_parse_lines(m, m.raw_data_, g)

Mem_do_calculate(m) ==
  LET used == (m.total_kb_ + Modulus - m.available_kb_) % Modulus
  IN IF m.total_kb_ > 0
     THEN [m EXCEPT !.used_kb_ = used, !.usage_percent_ = Pct(used, m.total_kb_)]
     ELSE [m EXCEPT !.used_kb_ = used]

Mem_update(m, f, g) ==
  LET col == Mem_do_collect(m, f)
  IN [obj |-> Mem_do_calculate(Mem_do_parse(col.obj, g)), errs |-> col.errs, threw |-> FALSE]

\* ------------------------------------------------------------ DiskCollector
W_loop == <<"l", "o", "o", "p">>

W_sd == <<"s", "d">>

W_vd == <<"v", "d">>

W_nvme == <<"n", "v", "m", "e">>

W_p == <<"p">>

DiskInit == [raw_data_ |-> <<>>, disks_ |-> <<>>]

Disk_do_collect(d, f) ==
  IF ~f.open THEN [obj |-> d, errs |-> LOG_ERROR]
  ELSE [obj |-> [d EXCEPT !.raw_data_ = f.lines], errs |-> 0]

\* The filter without the test for the partition marker of an NVMe name.
Disk_keep_without_marker(name) ==
  LET nvme == Contains(name, W_nvme)
      is_partition == Len(name) > 2 /\ IsDigit(name[Len(name)]) /\ ~nvme
  IN /\ ~Contains(name, W_loop)
     /\ Contains(name, W_sd) \/ Contains(name, W_vd) \/ nvme
     /\ ~is_partition

\* The filter of do_parse on a device name: the outer test, is_partition, and
\* the test that guards push_back.
Disk_keep(name) ==
  LET nvme == Contains(name, W_nvme)
      is_partition == /\ Len(name) > 2
                      /\ \/ IsDigit(name[Len(name)]) /\ ~nvme
                         \/ nvme /\ Contains(name, W_p)
  IN /\ ~Contains(name, W_loop)
     /\ Contains(name, W_sd) \/ Contains(name, W_vd) \/ nvme
     /\ ~is_partition \/ (nvme /\ ~Contains(name, W_p))

\* One line of do_parse's loop: the records it appends to disks_ (none or one).
Disk_parse_line(line, g) ==
  LET major == GetNum(Stream(line), g, FALSE)
      minor == GetNum(major.ss, g, FALSE)
      name == GetWord(minor.ss)
      reads_completed == GetNum(name.ss, g, TRUE)
      reads_merged == GetNum(reads_completed.ss, g, TRUE)
      sectors_read == GetNum(reads_merged.ss, g, TRUE)
      time_reading == GetNum(sectors_read.ss, g, TRUE)
      writes_completed == GetNum(time_reading.ss, g, TRUE)
      writes_merged == GetNum(writes_completed.ss, g, TRUE)
      sectors_written == GetNum(writes_merged.ss, g, TRUE)
  IN IF Disk_keep(name.val)
     THEN <<[name |-> name.val,
             reads_completed |-> reads_completed.val,
             writes_completed |-> writes_completed.val,
             sectors_read |-> sectors_read.val,
             sectors_written |-> sectors_written.val]>>
     ELSE <<>>

RECURSIVE Disk_parse_lines(_, _)
Disk_parse_lines(lines, g) ==
  IF lines = <<>> THEN <<>>
  ELSE Disk_parse_line(Head(lines), g) \o Disk_parse_lines(Tail(lines), g)

\* do_parse: disks_ is cleared and rebuilt from raw_data_.
Disk_do_parse(d, g) == [d EXCEPT !.disks_ = Disk_parse_lines(d.raw_data_, g)]

Disk_update(d, f, g) ==
  LET col == Disk_do_collect(d, f)
  IN [obj |-> Disk_do_parse(col.obj, g), errs |-> col.errs, threw |-> FALSE]

\* ------------------------------------------------------------ NetworkCollector
NetInit == [raw_data_ |-> <<>>, interfaces_ |-> <<>>]

Net_do_collect(n, f) ==
  IF ~f.open THEN [obj |-> n, errs |-> LOG_ERROR]
  ELSE [obj |-> [n EXCEPT !.raw_data_ = f.lines], errs |-> 0]

\* iface_name.erase(0, iface_name.find_first_not_of(" \t"))
RECURSIVE LTrim(_)
LTrim(s) == IF s # <<>> /\ Head(s) \in {" ", "\t"} THEN LTrim(Tail(s)) ELSE s

\* ss >> dummy, k times.
RECURSIVE SkipNums(_, _)
SkipNums(ss, k) == IF k = 0 THEN ss ELSE SkipNums(GetNum(ss, 0, TRUE).ss, k - 1)

\* The line parsed with five receive-side fields skipped instead of six.
Net_parse_line_skip_five(line) ==
  LET colon_pos == FindChar(line, ":")
      iface_name == LTrim(SubSeq(line, 1, colon_pos - 1))
      rx_bytes == GetNum(Stream(SubSeq(line, colon_pos + 1, Len(line))), 0, TRUE)
      rx_packets == GetNum(rx_bytes.ss, 0, TRUE)
      tx_bytes == GetNum(SkipNums(rx_packets.ss, 5), 0, TRUE)
      tx_packets == GetNum(tx_bytes.ss, 0, TRUE)
  IN IF colon_pos = 0 THEN <<>>
     ELSE <<[name |-> iface_name, rx_bytes |-> rx_bytes.val, tx_bytes |-> tx_bytes.val,
             rx_packets |-> rx_packets.val, tx_packets |-> tx_packets.val]>>

\* One line past the header: nothing when it holds no colon, else the record
\* (InterfaceStats starts with every counter 0).
Net_parse_line(line) ==
  LET colon_pos == FindChar(line, ":")
      iface_name == LTrim(SubSeq(line, 1, colon_pos - 1))
      rx_bytes == GetNum(Stream(SubSeq(line, colon_pos + 1, Len(line))), 0, TRUE)
      rx_packets == GetNum(rx_bytes.ss, 0, TRUE)
      tx_bytes == GetNum(SkipNums(rx_packets.ss, 6), 0, TRUE)
      tx_packets == GetNum(tx_bytes.ss, 0, TRUE)
  IN IF colon_pos = 0 THEN <<>>
     ELSE <<[name |-> iface_name, rx_bytes |-> rx_bytes.val, tx_bytes |-> tx_bytes.val,
             rx_packets |-> rx_packets.val, tx_packets |-> tx_packets.val]>>

\* The loop of do_parse from line number line_num on.
RECURSIVE Net_parse_lines(_, _)
Net_parse_lines(lines, line_num) ==
  IF lines = <<>> THEN <<>>
  ELSE (IF line_num <= 2 THEN <<>> ELSE Net_parse_line(Head(lines)))
       \o Net_parse_lines(Tail(lines), line_num + 1)

Net_do_parse(n) == [n EXCEPT !.interfaces_ = Net_parse_lines(n.raw_data_, 1)]

Net_update(n, f) ==
  LET col == Net_do_collect(n, f)
  IN [obj |-> Net_do_parse(col.obj), errs |-> col.errs, threw |-> FALSE]

\* ------------------------------------------------------------ ProcessCollector
\* A directory entry of /proc as readdir gives it, with what opening
\* /proc/<d_name>/stat gives.
Entry(name, type, stat) == [d_name |-> name, d_type |-> type, stat |-> stat]

\* opendir(PROC_PATH) fails.
NoDir == [open |-> FALSE, entries |-> <<>>]

Dir(es) == [open |-> TRUE, entries |-> es]

ProcInit == [raw_data_ |-> <<>>, processes_ |-> <<>>,
             total_processes_ |-> 0, running_processes_ |-> 0]

\* do_collect only clears raw_data_.
Proc_do_collect(p) == [p EXCEPT !.raw_data_ = <<>>]

\* The test on the first character only.
Is_pid_first_digit(name) == name # <<>> /\ IsDigit(name[1])

\* !name.empty() && std::all_of(name.begin(), name.end(), ::isdigit)
Is_pid(name) == name # <<>> /\ \A i \in 1..Len(name) : IsDigit(name[i])

\* The body of the readdir loop for one entry, on the collector p: gc and gi
\* are what the uninitialized state and vsize/rss hold.  The result says
\* whether line.substr(end + 2) threw std::out_of_range.
Proc_scan_entry(p, e, gc, gi) ==
  LET line == e.stat.lines[1]
      start == FindChar(line, "(")
      end == RFindChar(line, ")")
      name == IF end > start THEN SubSeq(line, start + 1, end - 1)
              ELSE SubSeq(line, start + 1, Len(line))
      state == GetChar(Stream(SubSeq(line, end + 2, Len(line))), gc)
      vsize == GetNum(SkipNums(state.ss, 19), gi, TRUE)
      rss == GetNum(vsize.ss, gi, FALSE)
      info == [pid |-> Stoi(e.d_name).val, name |-> name, state |-> state.val,
               vsize |-> vsize.val, rss |-> rss.val]
  IN IF e.d_type # "DT_DIR" \/ ~Is_pid(e.d_name) THEN [threw |-> FALSE, obj |-> p]
     ELSE IF ~e.stat.open \/ e.stat.lines = <<>> THEN [threw |-> FALSE, obj |-> p]
     ELSE IF start = 0 \/ end = 0 THEN [threw |-> FALSE, obj |-> p]
     ELSE IF end = Len(line) THEN [threw |-> TRUE, obj |-> p]
     ELSE [threw |-> FALSE,
           obj |-> [p EXCEPT !.processes_ = Append(@, info),
                             !.total_processes_ = @ + 1,
                             !.running_processes_ = IF state.val = "R" THEN @ + 1 ELSE @]]

RECURSIVE Proc_scan(_, _, _, _)
Proc_scan(p, entries, gc, gi) ==
  IF entries = <<>> THEN [threw |-> FALSE, obj |-> p]
  ELSE LET one == Proc_scan_entry(p, Head(entries), gc, gi)
       IN IF one.threw THEN one ELSE Proc_scan(one.obj, Tail(entries), gc, gi)

\* The greatest resident size among the records at the indices idxs.
MaxRss(list, idxs) == CHOOSE m \in {list[i].rss : i \in idxs} :
                         \A i \in idxs : list[i].rss <= m

\* std::sort by a.rss > b.rss: every order of the records that the comparison
\* allows (records of equal rss may come out in any order).
RECURSIVE SortOrders(_, _)
SortOrders(list, idxs) ==
  IF idxs = {} THEN {<<>>}
  ELSE UNION {{<<list[i]>> \o t : t \in SortOrders(list, idxs \ {i})} :
              i \in {j \in idxs : list[j].rss = MaxRss(list, idxs)}}

\* The sort with the comparison a.rss < b.rss.
Proc_sort_ascending(list) ==
  {[k \in 1..Len(t) |-> t[Len(t) + 1 - k]] : t \in SortOrders(list, 1..Len(list))}

Proc_sort(list) == SortOrders(list, 1..Len(list))

\* do_parse: the outcomes of one directory scan.
Proc_do_parse(p, dir, gc, gi) ==
  IF ~dir.open THEN {[obj |-> p, errs |-> LOG_ERROR, threw |-> FALSE]}
  ELSE LET scan == Proc_scan([p EXCEPT !.processes_ = <<>>, !.total_processes_ = 0,
                                        !.running_processes_ = 0], dir.entries, gc, gi)
       IN IF scan.threw THEN {[obj |-> scan.obj, errs |-> 0, threw |-> TRUE]}
          ELSE {[obj |-> [scan.obj EXCEPT !.processes_ = sorted], errs |-> 0, threw |-> FALSE] :
                sorted \in Proc_sort(scan.obj.processes_)}

Proc_update(p, dir, gc, gi) == Proc_do_parse(Proc_do_collect(p), dir, gc, gi)

\* print_result: the counts and the entries it prints.
Top == 5

Proc_print_result(p) ==
  [total |-> p.total_processes_, running |-> p.running_processes_,
   top |-> SubSeq(p.processes_, 1, IF Len(p.processes_) < Top THEN Len(p.processes_) ELSE Top)]

\* ------------------------------------------------------------ SystemCollector
SysInit == [raw_data_ |-> <<>>, uptime_seconds_ |-> 0, load_1min_ |-> 0, load_5min_ |-> 0,
            load_15min_ |-> 0, running_tasks_ |-> 0, total_tasks_ |-> 0]

\* The text of a file read through rdbuf(): its lines, each ended by a newline.
RECURSIVE Text(_)
Text(lines) == IF lines = <<>> THEN <<>> ELSE Head(lines) \o <<"\n">> \o Text(Tail(lines))

\* do_collect: neither file's failure to open is logged.
Sys_do_collect(s, up, load) ==
  LET s1 == IF up.open
            THEN [s EXCEPT !.uptime_seconds_ = GetDouble(Stream(Text(up.lines)), @).val]
            ELSE s
  IN [obj |-> IF load.open THEN [s1 EXCEPT !.raw_data_ = Text(load.lines)] ELSE s1,
      errs |-> 0]

\* do_parse: std::stoi throws on a part of the task token that has no digit.
Sys_do_parse(s) ==
  LET l1 == GetDouble(Stream(s.raw_data_), s.load_1min_)
      l5 == GetDouble(l1.ss, s.load_5min_)
      l15 == GetDouble(l5.ss, s.load_15min_)
      running_str == GetWord(l15.ss).val
      slash_pos == FindChar(running_str, "/")
      running == Stoi(SubSeq(running_str, 1, slash_pos - 1))
      total == Stoi(SubSeq(running_str, slash_pos + 1, Len(running_str)))
      s1 == [s EXCEPT !.load_1min_ = l1.val, !.load_5min_ = l5.val, !.load_15min_ = l15.val]
  IN IF slash_pos = 0 THEN [obj |-> s1, threw |-> FALSE]
     ELSE IF running.threw THEN [obj |-> s1, threw |-> TRUE]
     ELSE IF total.threw THEN [obj |-> [s1 EXCEPT !.running_tasks_ = running.val], threw |-> TRUE]
     ELSE [obj |-> [s1 EXCEPT !.running_tasks_ = running.val, !.total_tasks_ = total.val],
           threw |-> FALSE]

Sys_update(s, up, load) ==
  LET col == Sys_do_collect(s, up, load)
      par == Sys_do_parse(col.obj)
  IN [obj |-> par.obj, errs |-> col.errs, threw |-> par.threw]

\* ------------------------------------------------------------ the kernel's files
\* What each source may hold when it is read.  In the specification that
\* follows one collector (its focus) the source of that collector ranges over
\* the whole set and may fail to open; the other sources hold one well-formed
\* text, so that the collectors, which share no state, are explored one at a
\* time.

\* "cpu user nice system idle iowait irq softirq steal"
CpuLine(user, nice, system, idle, iowait, irq, softirq, steal) ==
  Join(<<W_cpu, NumStr(user), NumStr(nice), NumStr(system), NumStr(idle), NumStr(iowait),
         NumStr(irq), NumStr(softirq), NumStr(steal)>>)

\* The file cannot be opened, is empty, holds a line cut after two counters, a
\* line whose eight counters all differ, a line with one iowait tick, or a
\* line with user and idle ticks.
CpuFiles ==
  {NoFile, File(<<>>), File(<<Join(<<W_cpu, NumStr(1), NumStr(1)>>)>>),
   File(<<CpuLine(1, 2, 3, 4, 5, 6, 7, 8)>>), File(<<CpuLine(0, 0, 0, 0, 1, 0, 0, 0)>>)}
  \cup {File(<<CpuLine(u, 0, 0, i, 0, 0, 0, 0)>>) : u \in 0..(MaxTick + 1), i \in 0..MaxTick}

CpuCanon == {File(<<CpuLine(1, 0, 0, 1, 0, 0, 0, 0)>>)}

MemLine(key, v) == Join(<<key, NumStr(v), W_kB>>)

MemText(t, a) == <<MemLine(K_MemTotal, t), MemLine(K_MemFree, 1), MemLine(K_MemAvailable, a),
                   MemLine(K_Buffers, 0), MemLine(K_Cached, 1)>>

MemFiles ==
  {NoFile, File(<<>>), File(<<K_MemTotal>>), File(<<Join(<<K_MemTotal, <<"x">>, W_kB>>)>>)}
  \cup {File(MemText(t, a)) : t \in 0..MaxKb, a \in 0..MaxKb}
  \cup {File(<<MemLine(K_MemAvailable, a)>>) : a \in 0..MaxKb}

MemCanon == {File(MemText(2, 1))}

\* "major minor name" and the eight counters, numbered 1..8 in file order.
DiskLine(name) ==
  Join(<<NumStr(8), NumStr(0), name>> \o [k \in 1..8 |-> NumStr(k)])

N_loop3 == <<"l", "o", "o", "p", "3">>

N_sda == <<"s", "d", "a">>

N_sda1 == <<"s", "d", "a", "1">>

N_nvme0n1 == <<"n", "v", "m", "e", "0", "n", "1">>

N_nvme0n1p1 == <<"n", "v", "m", "e", "0", "n", "1", "p", "1">>

N_sr0 == <<"s", "r", "0">>

N_vda == <<"v", "d", "a">>

N_vda2 == <<"v", "d", "a", "2">>

DiskLines ==
  {DiskLine(n) : n \in {N_loop3, N_sda, N_sda1, N_nvme0n1, N_nvme0n1p1, N_sr0, N_vda, N_vda2}}
  \cup {Join(<<NumStr(8), NumStr(16), N_sda>>)}

\* All sequences over S of length at most n.
RECURSIVE SeqsUpTo(_, _)
SeqsUpTo(S, n) == IF n = 0 THEN {<<>>}
                  ELSE LET shorter == SeqsUpTo(S, n - 1)
                       IN shorter \cup {Append(q, x) : q \in shorter, x \in S}

\* Every file of at most MaxDiskLines lines, and two longer ones.
DiskFiles ==
  {NoFile,
   File(<<DiskLine(N_loop3), DiskLine(N_sda), DiskLine(N_sda1), DiskLine(N_nvme0n1),
          DiskLine(N_nvme0n1p1)>>),
   File(<<DiskLine(N_nvme0n1), DiskLine(N_sr0), DiskLine(N_sda), DiskLine(N_sda)>>)}
  \cup {File(ls) : ls \in SeqsUpTo(DiskLines, MaxDiskLines)}

DiskCanon == {File(<<DiskLine(N_sda)>>)}

\* An interface name as the kernel prints it: indented, then a colon.
Iface(n) == <<" ", " ">> \o n \o <<":">>

N_eth0 == <<"e", "t", "h", "0">>

N_lo == <<"l", "o">>

\* "  eth0: 1000 10 0 0 0 0 0 0 2000 20 0 0 0 0 0 0"
L_eth0 == Join(<<Iface(N_eth0), NumStr(1000), NumStr(10)>> \o [k \in 1..6 |-> NumStr(0)]
               \o <<NumStr(2000), NumStr(20)>> \o [k \in 1..6 |-> NumStr(0)])

\* "lo:1 2 3 4 5 6 7 8 9 10": no blank after the colon, every field different.
L_lo == N_lo \o <<":">> \o Join([k \in 1..10 |-> NumStr(k)])

\* A line that stops after its second counter.
L_short == Join(<<Iface(N_lo), NumStr(7), NumStr(4)>>)

\* A line whose second field is no number.
L_word == Join(<<Iface(N_eth0), NumStr(7), <<"x">>>> \o [k \in 1..8 |-> NumStr(k + 2)])

\* A line without a colon.
L_nocolon == Join(<<N_eth0, NumStr(5), NumStr(6)>>)

NetLines == {L_eth0, L_lo, L_short, L_word, L_nocolon}

\* The two header lines of /proc/net/dev.
H_kernel == <<Join(<<<<"I", "n", "t", "e", "r", "-", "|">>, <<"R", "x">>>>),
              Join(<<<<"f", "a", "c", "e", "|">>, <<"b", "y", "t", "e", "s">>>>)>>

\* No file, fewer lines than the header has, one longer file, and two first
\* lines (the header, or two lines that would parse as interfaces in its
\* place) with at most MaxNetLines lines after them.
NetFiles ==
  {NoFile, File(<<>>), File(<<L_eth0>>), File(H_kernel \o <<L_eth0, L_nocolon, L_lo>>)}
  \cup {File(h \o b) : h \in {H_kernel, <<L_lo, L_eth0>>}, b \in SeqsUpTo(NetLines, MaxNetLines)}

NetCanon == {File(H_kernel \o <<L_eth0>>)}

\* "pid (comm) state" and the 21 fields up to rss: 19 skipped ones (tpgid is
\* -1, as for a process without a terminal), then vsize and rss.
StatLine(pid, comm, state, vsize, rss) ==
  Join(<<pid, <<"(">> \o comm \o <<")">>, state>>
       \o [k \in 1..19 |-> IF k = 5 THEN <<"-", "1">> ELSE NumStr(k)]
       \o <<NumStr(vsize), NumStr(rss)>>)

ProcEntry(pid, comm, state, rss) ==
  Entry(pid, "DT_DIR", File(<<StatLine(pid, comm, state, 9, rss)>>))

C_myproc == <<"m", "y", " ", "p", "r", "o", "c">>

E_1234 == ProcEntry(<<"1", "2", "3", "4">>, C_myproc, <<"R">>, 5)

E_22 == ProcEntry(<<"2", "2">>, <<"b">>, <<"S">>, 50)

\* A name that holds parentheses, and the resident size of E_1234.
E_3 == ProcEntry(<<"3">>, <<"(", "c", ")", ")">>, <<"R">>, 5)

\* Entries that are no process: a directory with a name that is no number, a
\* name that only starts with digits, and a regular file with a numeric name.
E_self == ProcEntry(<<"s", "e", "l", "f">>, <<"s">>, <<"R">>, 70)

E_4x == ProcEntry(<<"4", "x">>, <<"x">>, <<"R">>, 80)

E_file == Entry(<<"5">>, "DT_REG", File(<<StatLine(<<"5">>, <<"f">>, <<"R">>, 9, 90)>>))

\* A process whose stat file cannot be opened, and one whose stat file is empty.
E_gone == Entry(<<"6">>, "DT_DIR", NoFile)

E_empty == Entry(<<"7">>, "DT_DIR", File(<<>>))

\* Stat lines that are cut short: right after ')', after ") ", after the state,
\* and one without parentheses.
E_cut0 == Entry(<<"8">>, "DT_DIR", File(<<<<"8", " ", "(", "x", ")">>>>))

E_cut1 == Entry(<<"9">>, "DT_DIR", File(<<<<"9", " ", "(", "y", ")", " ">>>>))

E_cut2 == Entry(<<"1", "0">>, "DT_DIR", File(<<<<"1", "0", " ", "(", "z", ")", " ", "R">>>>))

E_noparen == Entry(<<"1", "1">>, "DT_DIR", File(<<<<"1", "1", " ", "R">>>>))

BaseEntries == {E_1234, E_22, E_3, E_self}

OddEntries == {E_4x, E_file, E_gone, E_empty, E_cut0, E_cut1, E_cut2, E_noparen}

\* Resident sizes 5, 50, 1, 100, and seven processes for the top five.
FourProcs == [k \in 1..4 |-> ProcEntry(NumStr(100 + k), <<"p">>, <<"S">>,
                                       CASE k = 1 -> 5 [] k = 2 -> 50 [] k = 3 -> 1 [] k = 4 -> 100)]

SevenProcs == [k \in 1..7 |-> ProcEntry(NumStr(200 + k), <<"q">>, IF k = 2 THEN <<"R">> ELSE <<"S">>,
                                        (k * 3) % 7)]

ProcDirs ==
  {NoDir, Dir(FourProcs), Dir(SevenProcs)}
  \cup {Dir(es) : es \in SeqsUpTo(BaseEntries, MaxEntries)}
  \cup {Dir(<<E_22, e, E_1234>>) : e \in OddEntries}

ProcCanon == {Dir(<<E_1234>>)}

\* What an uninitialized char may hold.
IndeterminateChar == {"R", "?"}

W_load == <<"0", ".", "5", "0", " ", "0", ".", "4", "0", " ", "0", ".", "3", "0">>

\* "0.50 0.40 0.30 <task token> 999"
LoadLine(token) == Join(<<W_load, token, NumStr(999)>>)

T_2_150 == <<"2", "/", "1", "5", "0">>

LoadFiles ==
  {NoFile, File(<<>>), File(<<W_load>>), File(<<<<"x">>>>),
   File(<<LoadLine(T_2_150)>>),
   File(<<Join(<<<<"1", ".", "2", "5">>, <<"1">>, <<"0", ".", "7">>, <<"3", "/", "7">>>>)>>),
   File(<<LoadLine(<<"/", "1", "5", "0">>)>>),
   File(<<LoadLine(<<"a", "/", "b">>)>>),
   File(<<LoadLine(<<"4", "/">>)>>)}

UptimeFiles == {NoFile, File(<<Join(<<<<"1", "2", ".", "5", "0">>, <<"3", ".", "0", "0">>>>)>>),
                File(<<<<"9", "9", ".", "0", "1">>>>)}

LoadCanon == {File(<<LoadLine(T_2_150)>>)}

UptimeCanon == {File(<<<<"9", "9", ".", "0", "1">>>>)}

\* ------------------------------------------------------------ the program
\* REGISTER_COLLECTOR, in the order of the static registrars of Collectors.cpp:
\* creators_, each element named by its collector's get_name().
creators_ == <<"system", "cpu", "memory", "disk", "network", "process">>

VARIABLES
  pc,           \* where main() is
  idx,          \* the index into collectors of the loop main() is in
  exit_status,  \* "none" while running, main's return value, or "SIGABRT"
  collectors,   \* the vector create_all() returned, by get_name()
  cpu, mem, disk, net, proc, sys,   \* the six collector objects
  screen,       \* what print_result calls wrote since the last CLEAR_SCREEN
  tickLog,      \* history: the update/print_result calls that returned in this tick
  hist,         \* history: per collector, its run of refreshes without a source
  scanned,      \* history: the entries readdir gave the last scan that returned
  setup,        \* history: whether each setup call made so far succeeded, in order
  refreshed     \* history: the collectors on which update() has been called

vars == <<pc, idx, exit_status, collectors, cpu, mem, disk, net, proc, sys,
          screen, tickLog, hist, scanned, setup, refreshed>>

objects == <<cpu, mem, disk, net, proc, sys>>

\* No refresh without a source so far, or the last refresh had its source.
NoHist == [streak |-> 0, before |-> <<>>, logged |-> TRUE]

Init ==
  /\ pc = "timerfd_create"
  /\ idx = 1
  /\ exit_status = "none"
  /\ collectors = <<>>
  /\ cpu = CpuInit
  /\ mem = MemInit
  /\ disk = DiskInit
  /\ net = NetInit
  /\ proc = ProcInit
  /\ sys = SysInit
  /\ screen = <<>>
  /\ tickLog = <<>>
  /\ hist = [c \in {creators_[k] : k \in 1..Len(creators_)} |-> NoHist]
  /\ scanned = <<>>
  /\ setup = <<>>
  /\ refreshed = {}

\* What a collector shows of itself: the members print_result and the getters
\* read (for the CPU collector the percentage; the two generations are not
\* shown).
CpuRecord(c) == c.usage_percent_

MemRecord(m) == [total_kb_ |-> m.total_kb_, free_kb_ |-> m.free_kb_,
                 available_kb_ |-> m.available_kb_, buffers_kb_ |-> m.buffers_kb_,
                 cached_kb_ |-> m.cached_kb_, used_kb_ |-> m.used_kb_,
                 usage_percent_ |-> m.usage_percent_]

DiskRecord(d) == d.disks_

NetRecord(n) == n.interfaces_

ProcRecord(p) == [processes_ |-> p.processes_, total_processes_ |-> p.total_processes_,
                  running_processes_ |-> p.running_processes_]

SysRecord(s) == [uptime_seconds_ |-> s.uptime_seconds_, load_1min_ |-> s.load_1min_,
                 load_5min_ |-> s.load_5min_, load_15min_ |-> s.load_15min_,
                 running_tasks_ |-> s.running_tasks_, total_tasks_ |-> s.total_tasks_]

Record(name) == CASE name = "cpu" -> CpuRecord(cpu)
                  [] name = "memory" -> MemRecord(mem)
                  [] name = "disk" -> DiskRecord(disk)
                  [] name = "network" -> NetRecord(net)
                  [] name = "process" -> ProcRecord(proc)
                  [] name = "system" -> SysRecord(sys)

\* The step without the test of the call's result.
Setup_unchecked(at, next) ==
  /\ pc = at
  /\ \E ok \in BOOLEAN : setup' = Append(setup, ok)
  /\ pc' = next
  /\ UNCHANGED <<idx, exit_status, collectors, objects, screen, tickLog, hist, scanned,
                 refreshed>>

\* A step of the start of main(): a system call that succeeds goes on to the
\* next step; one that fails is logged, and main returns 1.
Setup(at, next) ==
  /\ pc = at
  /\ \E ok \in BOOLEAN :
       /\ setup' = Append(setup, ok)
       /\ IF ok THEN pc' = next /\ exit_status' = exit_status
          ELSE pc' = "exited" /\ exit_status' = 1
  /\ UNCHANGED <<idx, collectors, objects, screen, tickLog, hist, scanned, refreshed>>

TimerfdCreate == Setup("timerfd_create", "timerfd_settime")

TimerfdSettime == Setup("timerfd_settime", "epoll_create1")

EpollCreate == Setup("epoll_create1", "epoll_ctl")

EpollCtl == Setup("epoll_ctl", "create_all")

\* CollectorFactory::create_all: one new collector per creator, in order.
CreateAll ==
  /\ pc = "create_all"
  /\ collectors' = creators_
  /\ cpu' = CpuInit /\ mem' = MemInit /\ disk' = DiskInit
  /\ net' = NetInit /\ proc' = ProcInit /\ sys' = SysInit
  /\ pc' = "first_update"
  /\ idx' = 1
  /\ UNCHANGED <<exit_status, screen, tickLog, hist, scanned, setup, refreshed>>

\* The end of collectors[idx]->update(): r is what the update did, failed
\* whether its source could not be opened, before the record it showed when
\* the update began.  An exception leaves main() uncaught: std::terminate.
Returned(name, r, failed, before) ==
  /\ hist' = [hist EXCEPT ![name] =
                IF failed
                THEN [streak |-> IF @.streak = 0 THEN 1 ELSE 2,
                      before |-> IF @.streak = 0 THEN before ELSE @.before,
                      logged |-> (@.streak = 0 \/ @.logged) /\ r.errs > 0]
                ELSE NoHist]
  /\ IF r.threw
     THEN /\ pc' = "aborted"
          /\ exit_status' = "SIGABRT"
          /\ UNCHANGED <<idx, tickLog>>
     ELSE /\ exit_status' = exit_status
          /\ IF pc = "update"
             THEN /\ pc' = "print"
                  /\ idx' = idx
                  /\ tickLog' = Append(tickLog, <<"update", name>>)
             ELSE /\ pc' = IF idx < Len(collectors) THEN "first_update" ELSE "epoll_wait"
                  /\ idx' = IF idx < Len(collectors) THEN idx + 1 ELSE 1
                  /\ tickLog' = tickLog
  /\ refreshed' = refreshed \cup {name}
  /\ UNCHANGED <<collectors, screen, setup>>

\* main() is about to call update() on the collector of this name.
AtUpdate(name) ==
  /\ pc \in {"first_update", "update"}
  /\ collectors[idx] = name

\* The sources of the specification that follows the collector F.
In(F, name, all, canon) == IF F = name THEN all ELSE canon

UpdateSystem(F) ==
  /\ AtUpdate("system")
  /\ \E up \in In(F, "system", UptimeFiles, UptimeCanon),
        load \in In(F, "system", LoadFiles, LoadCanon) :
       LET r == Sys_update(sys, up, load)
       IN /\ sys' = r.obj
          /\ Returned("system", r, ~up.open /\ ~load.open, SysRecord(sys))
  /\ UNCHANGED <<cpu, mem, disk, net, proc, scanned>>

UpdateCPU(F) ==
  /\ AtUpdate("cpu")
  /\ \E f \in In(F, "cpu", CpuFiles, CpuCanon), g \in In(F, "cpu", Indeterminate, {0}) :
       LET r == Cpu_update(cpu, f, g)
       IN /\ cpu' = r.obj
          /\ Returned("cpu", r, ~f.open, CpuRecord(cpu))
  /\ UNCHANGED <<mem, disk, net, proc, sys, scanned>>

UpdateMemory(F) ==
  /\ AtUpdate("memory")
  /\ \E f \in In(F, "memory", MemFiles, MemCanon), g \in In(F, "memory", Indeterminate, {0}) :
       LET r == Mem_update(mem, f, g)
       IN /\ mem' = r.obj
          /\ Returned("memory", r, ~f.open, MemRecord(mem))
  /\ UNCHANGED <<cpu, disk, net, proc, sys, scanned>>

UpdateDisk(F) ==
  /\ AtUpdate("disk")
  /\ \E f \in In(F, "disk", DiskFiles, DiskCanon), g \in In(F, "disk", Indeterminate, {0}) :
       LET r == Disk_update(disk, f, g)
       IN /\ disk' = r.obj
          /\ Returned("disk", r, ~f.open, DiskRecord(disk))
  /\ UNCHANGED <<cpu, mem, net, proc, sys, scanned>>

UpdateNetwork(F) ==
  /\ AtUpdate("network")
  /\ \E f \in In(F, "network", NetFiles, NetCanon) :
       LET r == Net_update(net, f)
       IN /\ net' = r.obj
          /\ Returned("network", r, ~f.open, NetRecord(net))
  /\ UNCHANGED <<cpu, mem, disk, proc, sys, scanned>>

UpdateProcess(F) ==
  /\ AtUpdate("process")
  /\ \E d \in In(F, "process", ProcDirs, ProcCanon),
        gc \in In(F, "process", IndeterminateChar, {"?"}),
        gi \in In(F, "process", Indeterminate, {0}) :
       \E r \in Proc_update(proc, d, gc, gi) :
          /\ proc' = r.obj
          /\ scanned' = IF d.open /\ ~r.threw THEN d.entries ELSE scanned
          /\ Returned("process", r, ~d.open, ProcRecord(proc))
  /\ UNCHANGED <<cpu, mem, disk, net, sys>>

\* What print_result of the collector of this name writes.
Rendered(name) == IF name = "process" THEN Proc_print_result(proc) ELSE Record(name)

\* collectors[idx]->print_result(), then the next collector or the end of the tick.
PrintResult ==
  /\ pc = "print"
  /\ screen' = Append(screen, [name |-> collectors[idx], text |-> Rendered(collectors[idx])])
  /\ tickLog' = Append(tickLog, <<"print", collectors[idx]>>)
  /\ pc' = IF idx < Len(collectors) THEN "update" ELSE "epoll_wait"
  /\ idx' = IF idx < Len(collectors) THEN idx + 1 ELSE 1
  /\ UNCHANGED <<exit_status, collectors, objects, hist, scanned, setup, refreshed>>

\* epoll_wait returns the timer's event, or fails: the loop is left and main
\* returns 0.
EpollWait ==
  /\ pc = "epoll_wait"
  /\ \E ok \in BOOLEAN :
       IF ok THEN pc' = "read_timer" /\ exit_status' = exit_status
       ELSE pc' = "exited" /\ exit_status' = 0
  /\ UNCHANGED <<idx, collectors, objects, screen, tickLog, hist, scanned, setup, refreshed>>

\* read(tfd): a short read is logged and the event skipped; else the tick
\* starts with CLEAR_SCREEN and the header.
ReadTimer ==
  /\ pc = "read_timer"
  /\ \E ok \in BOOLEAN :
       IF ok THEN /\ pc' = "update"
                  /\ screen' = <<>>
                  /\ tickLog' = <<<<"clear">>>>
       ELSE /\ pc' = "epoll_wait"
            /\ UNCHANGED <<screen, tickLog>>
  /\ idx' = 1
  /\ UNCHANGED <<exit_status, collectors, objects, hist, scanned, setup, refreshed>>

Next(F) ==
  \/ TimerfdCreate
  \/ TimerfdSettime
  \/ EpollCreate
  \/ EpollCtl
  \/ CreateAll
  \/ UpdateSystem(F)
  \/ UpdateCPU(F)
  \/ UpdateMemory(F)
  \/ UpdateDisk(F)
  \/ UpdateNetwork(F)
  \/ UpdateProcess(F)
  \/ PrintResult
  \/ EpollWait
  \/ ReadTimer

\* One specification per collector: the program with that collector's source
\* ranging over all its texts.
SpecSystem == Init /\ [][Next("system")]_vars

SpecCPU == Init /\ [][Next("cpu")]_vars

SpecMemory == Init /\ [][Next("memory")]_vars

SpecDisk == Init /\ [][Next("disk")]_vars

SpecNetwork == Init /\ [][Next("network")]_vars

SpecProcess == Init /\ [][Next("process")]_vars

\* ------------------------------------------------------------ claims
\* The place of a collector in creators_.
IndexOf(name) == CHOOSE k \in 1..Len(creators_) : creators_[k] = name

\* The value of a percentage lies in [0, 100].
InRange(u) == 0 <= u.num /\ u.num <= 100 * u.den

\* In this tick update() of the collector of this name has returned.
UpdatedInTick(name) == \E k \in 1..Len(tickLog) : tickLog[k] = <<"update", name>>

\* The words of a line: what blanks separate.
RECURSIVE WordsFrom(_, _)
WordsFrom(s, p) ==
  LET a == SkipWs(s, p)
  IN IF a > Len(s) THEN <<>>
     ELSE <<SubSeq(s, a, WordEnd(s, a) - 1)>> \o WordsFrom(s, WordEnd(s, a))

Words(s) == WordsFrom(s, 1)

\* A word that is an unsigned decimal number, and its value.
IsNumber(w) == w # <<>> /\ \A i \in 1..Len(w) : IsDigit(w[i])

NumberOf(w) == DigitsVal(w, 1, Len(w) + 1)

\* The line is a label and eight counters.
EightCounters(line) ==
  /\ Len(Words(line)) = 9
  /\ \A k \in 2..9 : IsNumber(Words(line)[k])

\* The CPU collector has been refreshed once, by the first pass of main(), and
\* not again.
FirstCpuRefreshDone ==
  /\ collectors # <<>>
  /\ \/ pc = "first_update" /\ idx > IndexOf("cpu")
     \/ pc \in {"epoll_wait", "read_timer"} /\ tickLog = <<>>

\* C1: after a tick's CPU refresh that parsed eight counters whose total-ticks
\* is strictly greater than that of the refresh before it, the usage percentage
\* lies in [0, 100], whatever the counters are (idle + iowait may have gone
\* down).
C1_UsageInRange ==
  (/\ UpdatedInTick("cpu")
   /\ EightCounters(cpu.raw_data_)
   /\ cpu.curr_total_ > cpu.prev_total_) => InRange(cpu.usage_percent_)

C3_UnreachableTwice ==
  \A c \in DOMAIN hist :
    hist[c].streak = 2 =>
      /\ Record(c) = hist[c].before
      /\ hist[c].logged
      /\ pc # "aborted"

\* C4: update() of a collector always returns to main(), whatever text its
\* source holds: the process is never ended by an exception.
C4_UpdateReturns == pc # "aborted"

\* The text read last holds a MemTotal line with a number.
MemTotalParsed ==
  \E k \in 1..Len(mem.raw_data_) :
    /\ Len(Words(mem.raw_data_[k])) >= 2
    /\ Words(mem.raw_data_[k])[1] = K_MemTotal
    /\ IsNumber(Words(mem.raw_data_[k])[2])

\* C5: after every Memory refresh used = total - available (as the machine
\* subtracts), the percentage is 100 * used / total when total > 0, and it is
\* 0 when the parsed total is 0.
C5_MemoryDerived ==
  /\ mem.used_kb_ = (mem.total_kb_ + Modulus - mem.available_kb_) % Modulus
  /\ mem.total_kb_ > 0 =>
       mem.usage_percent_.num * mem.total_kb_ = 100 * mem.used_kb_ * mem.usage_percent_.den
  /\ (MemTotalParsed /\ mem.total_kb_ = 0) => mem.usage_percent_.num = 0

\* The device name of a disk-stats line: its third word, after the two device
\* numbers.
DeviceName(line) ==
  IF Len(Words(line)) >= 3 /\ IsNumber(Words(line)[1]) /\ IsNumber(Words(line)[2])
  THEN Words(line)[3]
  ELSE <<>>

\* A partition: a name with the marker p when it is an NVMe name, else a name
\* that ends in a digit.
IsPartitionName(name) ==
  IF Contains(name, W_nvme) THEN Contains(name, W_p)
  ELSE name # <<>> /\ IsDigit(name[Len(name)])

\* A whole disk: no loop device, one of the three families, no partition.
IsWholeDisk(name) ==
  /\ ~Contains(name, W_loop)
  /\ Contains(name, W_sd) \/ Contains(name, W_vd) \/ Contains(name, W_nvme)
  /\ ~IsPartitionName(name)

SurvivingLine(line) == IsWholeDisk(DeviceName(line))

\* C6: the records of the Disk collector are, in the order of the lines of the
\* text read, one per line whose device name is a whole disk (not a loop
\* device, of the sd, vd or nvme family, no partition), under that name.
C6_DiskFilter ==
  LET kept == SelectSeq(disk.raw_data_, SurvivingLine)
  IN /\ Len(disk.disks_) = Len(kept)
     /\ \A k \in 1..Len(kept) : disk.disks_[k].name = DeviceName(kept[k])

\* The lines of loop3, sda, sda1, nvme0n1 and nvme0n1p1 were read, and the
\* records are those of sda and nvme0n1.
C6_Witness ==
  /\ Len(disk.raw_data_) = 5
  /\ [k \in 1..5 |-> DeviceName(disk.raw_data_[k])]
       = <<N_loop3, N_sda, N_sda1, N_nvme0n1, N_nvme0n1p1>>
  /\ Len(disk.disks_) = 2
  /\ disk.disks_[1].name = N_sda
  /\ disk.disks_[2].name = N_nvme0n1

\* The lines of the interface table after its two header lines.
BodyLines(raw) == SubSeq(raw, 3, Len(raw))

HasColon(line) == \E i \in 1..Len(line) : line[i] = ":"

FirstColon(line) == CHOOSE i \in 1..Len(line) :
                      line[i] = ":" /\ \A j \in 1..(i - 1) : line[j] # ":"

\* The text left of the first colon without its leading blanks.
InterfaceName(line) ==
  LET left == SubSeq(line, 1, FirstColon(line) - 1)
      blanks == {n \in 0..Len(left) : \A j \in 1..n : left[j] \in {" ", "\t"}}
      lead == CHOOSE n \in blanks : \A m \in blanks : m <= n
  IN SubSeq(left, lead + 1, Len(left))

\* The words right of the first colon.
Counters(line) == Words(SubSeq(line, FirstColon(line) + 1, Len(line)))

\* The record is the one the line describes: its name, and its four counters
\* when the line holds ten numbers.
DescribedBy(rec, line) ==
  /\ rec.name = InterfaceName(line)
  /\ (Len(Counters(line)) >= 10 /\ \A k \in 1..10 : IsNumber(Counters(line)[k])) =>
       /\ rec.rx_bytes = NumberOf(Counters(line)[1])
       /\ rec.rx_packets = NumberOf(Counters(line)[2])
       /\ rec.tx_bytes = NumberOf(Counters(line)[9])
       /\ rec.tx_packets = NumberOf(Counters(line)[10])

\* C7 as stated: the interface list holds one record for every line after the
\* two header lines, in the order of the lines, each with the name left of the
\* first colon and the 1st, 2nd, 9th and 10th numbers right of it.
C7_RecordPerLine ==
  LET body == BodyLines(net.raw_data_)
  IN /\ Len(net.interfaces_) = Len(body)
     /\ \A k \in 1..Len(body) :
          HasColon(body[k]) => DescribedBy(net.interfaces_[k], body[k])

\* C7, amended: the interface list holds one record for every line after the
\* two header lines that contains a colon, in the order of the lines, each
\* with the name left of the first colon and the 1st, 2nd, 9th and 10th
\* numbers right of it; a line without a colon gives no record.
C7_RecordPerColonLine ==
  LET body == SelectSeq(BodyLines(net.raw_data_), HasColon)
  IN /\ Len(net.interfaces_) = Len(body)
     /\ \A k \in 1..Len(body) : DescribedBy(net.interfaces_[k], body[k])

\* A text with a line without a colon between two interfaces was read.
C7_Witness ==
  /\ Len(net.raw_data_) = 5
  /\ ~HasColon(net.raw_data_[4])
  /\ Len(net.interfaces_) = 2
  /\ net.interfaces_[1].name = N_eth0
  /\ net.interfaces_[1].tx_bytes = 2000
  /\ net.interfaces_[2].name = N_lo
  /\ net.interfaces_[2].tx_packets = 10

\* The places of the first '(' and of the last ')' of a stat line.
FirstOpen(line) == CHOOSE i \in 1..Len(line) :
                     line[i] = "(" /\ \A j \in 1..(i - 1) : line[j] # "("

LastClose(line) == CHOOSE i \in 1..Len(line) :
                     line[i] = ")" /\ \A j \in (i + 1)..Len(line) : line[j] # ")"

HasParentheses(line) ==
  /\ \E i \in 1..Len(line) : line[i] = "("
  /\ \E i \in 1..Len(line) : line[i] = ")"

\* The words after the last ')'.
AfterClose(line) == Words(SubSeq(line, LastClose(line) + 1, Len(line)))

\* The record is that of the directory entry: the entry is a directory named
\* by a number with a stat line, the pid is that number, the name stands
\* between the parentheses and the state is the first character after them.
RecordOf(rec, e) ==
  /\ e.d_type = "DT_DIR"
  /\ IsNumber(e.d_name)
  /\ rec.pid = NumberOf(e.d_name)
  /\ e.stat.open /\ e.stat.lines # <<>>
  /\ HasParentheses(e.stat.lines[1])
  /\ LET line == e.stat.lines[1]
     IN /\ rec.name = SubSeq(line, FirstOpen(line) + 1, LastClose(line) - 1)
        /\ AfterClose(line) # <<>> => rec.state = AfterClose(line)[1][1]

\* C8: after a Process refresh every record is that of a directory entry of
\* the scan whose name is all digits, with that number as pid, the text
\* between the first '(' and the last ')' as name and the first character
\* after the ')' as state; the total count is the number of records and the
\* running count the number of records in state R.
C8_ProcessScan ==
  pc # "aborted" =>
    /\ \A i \in 1..Len(proc.processes_) :
         \E k \in 1..Len(scanned) : RecordOf(proc.processes_[i], scanned[k])
    /\ proc.total_processes_ = Len(proc.processes_)
    /\ proc.running_processes_
         = Cardinality({i \in 1..Len(proc.processes_) : proc.processes_[i].state = "R"})

\* The scan met a directory whose name only starts with a digit between two
\* processes, and 1234 (my proc) R is one of its two records.
C8_Witness ==
  /\ pc # "aborted"
  /\ scanned = <<E_22, E_4x, E_1234>>
  /\ proc.total_processes_ = 2
  /\ proc.running_processes_ = 1
  /\ \E i \in 1..Len(proc.processes_) :
       /\ proc.processes_[i].pid = 1234
       /\ proc.processes_[i].name = C_myproc
       /\ proc.processes_[i].state = "R"

\* No record has a greater resident size than one before it.
Descending(list) == \A i \in 1..(Len(list) - 1) : list[i].rss >= list[i + 1].rss

\* C9: after a Process refresh the records are in the order of non-increasing
\* resident size, and what the collector rendered is the first min(5, n) of
\* them: in descending order, and never more than 5.
C9_SortedTopFive ==
  pc # "aborted" =>
    /\ Descending(proc.processes_)
    /\ \A b \in 1..Len(screen) :
         screen[b].name = "process" =>
           LET top == screen[b].text.top
               n == Len(proc.processes_)
           IN /\ Len(top) = IF n < 5 THEN n ELSE 5
              /\ top = SubSeq(proc.processes_, 1, Len(top))
              /\ Descending(top)
              /\ Len(top) <= 5

\* Seven processes were scanned and five of them rendered.
C9_Witness ==
  /\ pc # "aborted"
  /\ Len(proc.processes_) = 7
  /\ \E b \in 1..Len(screen) :
       /\ screen[b].name = "process"
       /\ Len(screen[b].text.top) = 5
       /\ screen[b].text.top[1].rss > screen[b].text.top[5].rss

\* The calls of one whole tick: the screen is cleared, then each collector is
\* refreshed and rendered, System first and Process last.
FullTick ==
  <<<<"clear">>>>
  \o <<<<"update", "system">>, <<"print", "system">>, <<"update", "cpu">>, <<"print", "cpu">>,
       <<"update", "memory">>, <<"print", "memory">>, <<"update", "disk">>, <<"print", "disk">>,
       <<"update", "network">>, <<"print", "network">>,
       <<"update", "process">>, <<"print", "process">>>>

\* C10: the calls of a tick are those of the whole tick in their order (each
\* collector refreshed once and rendered once after its refresh, in the order
\* System, CPU, Memory, Disk, Network, Process), and main() is outside a tick
\* (waiting, or gone) only when all of them have been made.
C10_TickOrder ==
  /\ Len(tickLog) <= Len(FullTick)
  /\ \A k \in 1..Len(tickLog) : tickLog[k] = FullTick[k]
  /\ (tickLog # <<>> /\ pc \in {"epoll_wait", "read_timer", "exited", "aborted"}) =>
       tickLog = FullTick

\* One of the setup calls made so far failed; all four of them succeeded.
SetupFailed == \E k \in 1..Len(setup) : ~setup[k]

SetupSucceeded == setup = <<TRUE, TRUE, TRUE, TRUE>>

\* C11: once timerfd_create, timerfd_settime, epoll_create1 or epoll_ctl has
\* failed, main() has returned 1 and no collector exists or has been
\* refreshed; and a collector exists or has been refreshed only when all four
\* calls succeeded.
C11_SetupFailureIsFatal ==
  /\ SetupFailed =>
       /\ pc = "exited"
       /\ exit_status = 1
       /\ collectors = <<>>
       /\ refreshed = {}
       /\ objects = <<CpuInit, MemInit, DiskInit, NetInit, ProcInit, SysInit>>
  /\ (collectors # <<>> \/ refreshed # {}) => SetupSucceeded

\* epoll_create1 failed after the timer was created and armed.
C11_Witness ==
  /\ setup = <<TRUE, TRUE, FALSE>>
  /\ pc = "exited"
  /\ exit_status = 1

\* Two percentages of the same value.
SameValue(a, b) == a.num * b.den = b.num * a.den

\* C12: a CPU refresh from one line of eight counters to another, after which
\* the current total-ticks is not greater than the previous total-ticks (no
\* tick elapsed, or the counters were reset), leaves the usage percentage at
\* the value it had before the refresh.
C12_UsageKept ==
  [][(/\ AtUpdate("cpu")
      /\ EightCounters(cpu.raw_data_)
      /\ EightCounters(cpu'.raw_data_)
      /\ cpu'.curr_total_ <= cpu'.prev_total_) =>
       SameValue(cpu'.usage_percent_, cpu.usage_percent_)]_vars

\* The record of a collector is the one a newly constructed collector of its
\* class derives from the text this one read last (whatever the locals that
\* are not initialized hold).
MemoryStateless ==
  \E g \in Indeterminate :
    MemRecord(mem)
      = MemRecord(Mem_do_calculate(Mem_do_parse([MemInit EXCEPT !.raw_data_ = mem.raw_data_], g)))

DiskStateless ==
  \E g \in Indeterminate :
    DiskRecord(disk) = DiskRecord(Disk_do_parse([DiskInit EXCEPT !.raw_data_ = disk.raw_data_], g))

NetworkStateless ==
  NetRecord(net) = NetRecord(Net_do_parse([NetInit EXCEPT !.raw_data_ = net.raw_data_]))

ProcessStateless ==
  \E gc \in IndeterminateChar, gi \in Indeterminate :
    \E r \in Proc_update(ProcInit, Dir(scanned), gc, gi) : ProcRecord(proc) = ProcRecord(r.obj)

\* (The uptime is read straight into its member; the text kept is that of the
\* load averages.)
SystemStateless ==
  LET fresh == Sys_do_parse([SysInit EXCEPT !.raw_data_ = sys.raw_data_]).obj
  IN [SysRecord(sys) EXCEPT !.uptime_seconds_ = 0] = SysRecord(fresh)

\* C13: the record of each collector other than CPU is a function of the text
\* it read last: a collector with another history that read the same text
\* (a new one, for instance) has an equal record.
C13_Stateless ==
  pc # "aborted" =>
    /\ MemoryStateless
    /\ DiskStateless
    /\ NetworkStateless
    /\ ProcessStateless
    /\ SystemStateless

\* The sample a line of eight counters holds: its total-ticks (the sum of the
\* eight) and its idle-ticks (idle + iowait, the 4th and 5th counter).
RECURSIVE SumOf(_, _, _)
SumOf(ws, a, b) == IF a > b THEN 0 ELSE NumberOf(ws[a]) + SumOf(ws, a + 1, b)

SampleOf(line) ==
  [total |-> SumOf(Words(line), 2, 9) % Modulus,
   idle |-> (NumberOf(Words(line)[5]) + NumberOf(Words(line)[6])) % Modulus]

\* The generations of a CPU collector.
Previous(c) == [total |-> c.prev_total_, idle |-> c.prev_idle_]

Current(c) == [total |-> c.curr_total_, idle |-> c.curr_idle_]

\* The usage is that of the delta from the sample a to the sample b, as the
\* machine subtracts; with no tick between them it is the usage `kept`.
UsageOfDelta(u, a, b, kept) ==
  LET dt == (b.total + Modulus - a.total) % Modulus
      di == (b.idle + Modulus - a.idle) % Modulus
  IN IF dt > 0 THEN u.num * dt = 100 * ((dt + Modulus - di) % Modulus) * u.den
     ELSE SameValue(u, kept)

\* The CPU refresh that has just returned could not open its source.
CpuReadFailed == hist["cpu"].streak > 0

\* C14: a CPU refresh that fails after a line of eight counters was read
\* leaves both generations equal to the sample of that line and the usage
\* unchanged; a CPU refresh that reads a line of eight counters computes the
\* usage of the delta from the sample of the line read most recently before
\* it (from the all-zero generation when the collector has read none) to the
\* sample of its own line.
C14_DeltaFromLastSample ==
  [][AtUpdate("cpu") =>
       /\ (EightCounters(cpu.raw_data_) /\ CpuReadFailed') =>
            /\ Previous(cpu') = SampleOf(cpu.raw_data_)
            /\ Current(cpu') = SampleOf(cpu.raw_data_)
            /\ SameValue(cpu'.usage_percent_, cpu.usage_percent_)
       /\ (EightCounters(cpu.raw_data_) /\ ~CpuReadFailed' /\ EightCounters(cpu'.raw_data_)) =>
            /\ Previous(cpu') = SampleOf(cpu.raw_data_)
            /\ Current(cpu') = SampleOf(cpu'.raw_data_)
            /\ UsageOfDelta(cpu'.usage_percent_, SampleOf(cpu.raw_data_),
                            SampleOf(cpu'.raw_data_), cpu.usage_percent_)
       /\ (cpu = CpuInit /\ ~CpuReadFailed' /\ EightCounters(cpu'.raw_data_)) =>
            /\ Previous(cpu') = [total |-> 0, idle |-> 0]
            /\ Current(cpu') = SampleOf(cpu'.raw_data_)
            /\ UsageOfDelta(cpu'.usage_percent_, [total |-> 0, idle |-> 0],
                            SampleOf(cpu'.raw_data_), Zero)]_vars

\* A refresh has failed after a line of eight counters was read: both
\* generations are that sample, and the usage computed before is still there.
C14_Witness ==
  /\ CpuReadFailed
  /\ EightCounters(cpu.raw_data_)
  /\ Previous(cpu) = Current(cpu)
  /\ cpu.curr_total_ > 0
  /\ cpu.usage_percent_.num > 0

====
